---- MODULE Spec2Model ----
(***************************************************************************)
(* Model of react-window's VariableSizeList strategy                       *)
(* (src/src/VariableSizeList.js, the revision at lines 275-558): the lazy  *)
(* item metadata cache, the offset search, the stop-index walk, the        *)
(* scroll-to-item alignment and resetAfterIndex.                           *)
(*                                                                         *)
(* Every strategy function of the source takes (props, ..., instanceProps) *)
(* mutates instanceProps in place and returns a value.  Here such a call   *)
(* is an operator over a "run" record                                      *)
(*   [ip    : the instanceProps object as mutated so far,                  *)
(*    calls : the indices itemSize was invoked with, in order,             *)
(*    err   : TRUE once a TypeError was thrown (property of undefined),    *)
(*    ret   : the number returned,                                         *)
(*    meta  : the ItemMetadata returned]                                   *)
(* and a thrown error leaves the mutations made before it in place.        *)
(***************************************************************************)
EXTENDS Integers, Sequences, FiniteSets

(* ------------------------------ bounds -------------------------------- *)

\* Largest itemCount a list is created with.
MaxItemCount == 3

\* The height prop (size of the viewport along the scroll axis) is in 1..MaxHeight.
MaxHeight == 4

ItemCounts == 1..MaxItemCount

\* The sizes itemSize(index) returns.
ItemSizes == {1, 2}

LargestItemSize == CHOOSE s \in ItemSizes : \A t \in ItemSizes : t <= s

\* The arguments an itemSize function is tabulated for.  The function is the
\* user's and answers for any index, whatever itemCount is: its table runs one
\* index past the largest list.
ItemSizeArguments == 0..MaxItemCount

\* The itemSize functions a list is rendered with, each by its table: every item
\* the same size (index => 25 in the tests), and sizes that vary with the index
\* (index => 25 + index in the tests), rising and falling.
ItemSizeFunctions ==
  {[i \in ItemSizeArguments |-> s] : s \in ItemSizes}
    \cup {[i \in ItemSizeArguments |-> 1 + (i % LargestItemSize)],
          [i \in ItemSizeArguments |-> LargestItemSize - (i % LargestItemSize)]}

\* Lists with an item taller than every viewport: all items one unit larger than
\* LargestItemSize, or only the first one.
TallItemSizeFunctions ==
  {[i \in ItemSizeArguments |-> LargestItemSize + 1],
   [i \in ItemSizeArguments |-> IF i = 0 THEN LargestItemSize + 1 ELSE 1]}

Heights == 1..MaxHeight

\* The estimatedItemSize prop: 0 stands for a prop that is not given.
EstimatedItemSizeProps == {0, 3}

\* Offsets looked up with findIndexForOffset: below zero, inside and past the content.
Offsets == -1..(MaxItemCount * LargestItemSize + 1)

\* Scroll positions of the list (a scroll position is never negative).
ScrollOffsets == 0..(MaxItemCount * LargestItemSize + 1)

Aligns == {"auto", "start", "center", "end"}

\* Values of process.env.NODE_ENV.
NodeEnvs == {"development", "test", "production"}

\* The values a list may be given as its itemSize prop, each by what validateProps
\* reads of it: its typeof and whether it is null.  (typeof null is "object".)
ItemSizePropValues ==
  {[typeof |-> "function", isNull |-> FALSE],
   [typeof |-> "number", isNull |-> FALSE],
   [typeof |-> "string", isNull |-> FALSE],
   [typeof |-> "boolean", isNull |-> FALSE],
   [typeof |-> "undefined", isNull |-> FALSE],
   [typeof |-> "object", isNull |-> FALSE],
   [typeof |-> "object", isNull |-> TRUE]}

(* --------------------------- JS primitives ---------------------------- *)

DEFAULT_ESTIMATED_ITEM_SIZE == 50

\* The value of itemMetadataMap[i] for a key that was never written.
Undefined == [offset |-> -1, size |-> -1]

Min(a, b) == IF a < b THEN a ELSE b

Max(a, b) == IF a > b THEN a ELSE b

\* itemMetadataMap[i]
Lookup(map, i) == IF i \in DOMAIN map THEN map[i] ELSE Undefined

\* itemMetadataMap[i] = v
Put(map, i, v) == [j \in (DOMAIN map) \cup {i} |-> IF j = i THEN v ELSE map[j]]

\* The empty object {}.
EmptyMap == [j \in {} |-> Undefined]

\* (itemSize: itemSizeGetter)(i): the user's function is called with whatever
\* index it is given, inside the list or not, and answers what its table says.
ItemSizeCall(props, i) == props.itemSize[i]

\* Math.floor of the half-integer twice/2: halves go down.
MathFloorHalf(twice) == twice \div 2

\* Math.round of the half-integer twice/2: halves go up.
MathRoundHalf(twice) ==
  IF twice % 2 = 0 THEN twice \div 2 ELSE (twice + 1) \div 2

NewRun(ip) ==
  [ip |-> ip, calls |-> <<>>, err |-> FALSE, ret |-> 0, meta |-> Undefined]

Throw(r) == [r EXCEPT !.err = TRUE]

(* -------------------------- getItemMetadata --------------------------- *)

\* MeasureLoop without "offset += size": every measured item gets the first offset.
RECURSIVE MeasureLoopNoAdvance(_, _, _, _, _)
MeasureLoopNoAdvance(props, r, offset, i, index) ==
  IF i > index THEN r
  ELSE LET size == ItemSizeCall(props, i)
           w == [r EXCEPT !.ip.itemMetadataMap =
                            Put(@, i, [offset |-> offset, size |-> size]),
                          !.calls = Append(@, i)]
       IN MeasureLoopNoAdvance(props, w, offset, i + 1, index)

\* The for loop of getItemMetadata: measures i..index, each at the running offset.
RECURSIVE MeasureLoop(_, _, _, _, _)
MeasureLoop(props, r, offset, i, index) ==
  IF i > index THEN r
  ELSE LET size == ItemSizeCall(props, i)
           w == [r EXCEPT !.ip.itemMetadataMap =
                            Put(@, i, [offset |-> offset, size |-> size]),
                          !.calls = Append(@, i)]
       IN MeasureLoop(props, w, offset + size, i + 1, index)

\* getItemMetadata with its loop started at item 0 instead of lastMeasuredIndex + 1.
GetItemMetadataRemeasureAll(props, index, r) ==
  IF r.err THEN r
  ELSE IF index > r.ip.lastMeasuredIndex
  THEN LET f == MeasureLoop(props, r, 0, 0, index)
       IN [f EXCEPT !.ip.lastMeasuredIndex = index,
                    !.meta = Lookup(f.ip.itemMetadataMap, index)]
  ELSE [r EXCEPT !.meta = Lookup(r.ip.itemMetadataMap, index)]

\* getItemMetadata testing "itemMetadataMap[index] === undefined" instead of
\* "index > lastMeasuredIndex": whatever entry the store holds is returned.
GetItemMetadataTrustsStore(props, index, r) ==
  LET map == r.ip.itemMetadataMap
      lastMeasuredIndex == r.ip.lastMeasuredIndex
  IN IF r.err THEN r
     ELSE IF Lookup(map, index) = Undefined
     THEN IF lastMeasuredIndex >= 0 /\ Lookup(map, lastMeasuredIndex) = Undefined
          THEN Throw(r)
          ELSE LET offset == IF lastMeasuredIndex >= 0
                             THEN map[lastMeasuredIndex].offset
                                  + map[lastMeasuredIndex].size
                             ELSE 0
                   f == MeasureLoop(props, r, offset, lastMeasuredIndex + 1, index)
               IN [f EXCEPT !.ip.lastMeasuredIndex = index,
                            !.meta = Lookup(f.ip.itemMetadataMap, index)]
     ELSE [r EXCEPT !.meta = Lookup(map, index)]

\* getItemMetadata without the test "index > lastMeasuredIndex" guarding the cache: an
\* item at or below the watermark is measured again, in place.
GetItemMetadataNoCache(props, index, r) ==
  LET map == r.ip.itemMetadataMap
      lastMeasuredIndex == r.ip.lastMeasuredIndex
  IN IF r.err THEN r
     ELSE IF index > lastMeasuredIndex
     THEN IF lastMeasuredIndex >= 0 /\ Lookup(map, lastMeasuredIndex) = Undefined
          THEN Throw(r)
          ELSE LET offset == IF lastMeasuredIndex >= 0
                             THEN map[lastMeasuredIndex].offset
                                  + map[lastMeasuredIndex].size
                             ELSE 0
                   f == MeasureLoop(props, r, offset, lastMeasuredIndex + 1, index)
               IN [f EXCEPT !.ip.lastMeasuredIndex = index,
                            !.meta = Lookup(f.ip.itemMetadataMap, index)]
     ELSE IF Lookup(map, index) = Undefined THEN Throw(r)
     ELSE LET f == MeasureLoop(props, r, map[index].offset, index, index)
          IN [f EXCEPT !.meta = Lookup(f.ip.itemMetadataMap, index)]

\* getItemMetadata with "instanceProps.lastMeasuredIndex = index" after the if
\* instead of inside it: reading a measured item lowers the watermark to it.
GetItemMetadataLowersWatermark(props, index, r) ==
  LET map == r.ip.itemMetadataMap
      lastMeasuredIndex == r.ip.lastMeasuredIndex
  IN IF r.err THEN r
     ELSE IF index > lastMeasuredIndex
     THEN IF lastMeasuredIndex >= 0 /\ Lookup(map, lastMeasuredIndex) = Undefined
          THEN Throw(r)
          ELSE LET offset == IF lastMeasuredIndex >= 0
                             THEN map[lastMeasuredIndex].offset
                                  + map[lastMeasuredIndex].size
                             ELSE 0
                   f == MeasureLoop(props, r, offset, lastMeasuredIndex + 1, index)
               IN [f EXCEPT !.ip.lastMeasuredIndex = index,
                            !.meta = Lookup(f.ip.itemMetadataMap, index)]
     ELSE [r EXCEPT !.ip.lastMeasuredIndex = index,
                    !.meta = Lookup(map, index)]

\* getItemMetadata without "instanceProps.lastMeasuredIndex = index".
GetItemMetadataForgetsWatermark(props, index, r) ==
  LET map == r.ip.itemMetadataMap
      lastMeasuredIndex == r.ip.lastMeasuredIndex
  IN IF r.err THEN r
     ELSE IF index > lastMeasuredIndex
     THEN IF lastMeasuredIndex >= 0 /\ Lookup(map, lastMeasuredIndex) = Undefined
          THEN Throw(r)
          ELSE LET offset == IF lastMeasuredIndex >= 0
                             THEN map[lastMeasuredIndex].offset
                                  + map[lastMeasuredIndex].size
                             ELSE 0
                   f == MeasureLoop(props, r, offset, lastMeasuredIndex + 1, index)
               IN [f EXCEPT !.meta = Lookup(f.ip.itemMetadataMap, index)]
     ELSE [r EXCEPT !.meta = Lookup(map, index)]

GetItemMetadata(props, index, r) ==
  LET map == r.ip.itemMetadataMap
      lastMeasuredIndex == r.ip.lastMeasuredIndex
  IN IF r.err THEN r
     ELSE IF index > lastMeasuredIndex
     THEN IF lastMeasuredIndex >= 0 /\ Lookup(map, lastMeasuredIndex) = Undefined
          THEN Throw(r)
          ELSE LET offset == IF lastMeasuredIndex >= 0
                             THEN map[lastMeasuredIndex].offset
                                  + map[lastMeasuredIndex].size
                             ELSE 0
                   f == MeasureLoop(props, r, offset, lastMeasuredIndex + 1, index)
               IN [f EXCEPT !.ip.lastMeasuredIndex = index,
                            !.meta = Lookup(f.ip.itemMetadataMap, index)]
     ELSE [r EXCEPT !.meta = Lookup(map, index)]

(* ----------------------------- searches ------------------------------- *)

RECURSIVE FindNearestItemBinarySearch(_, _, _, _, _)
FindNearestItemBinarySearch(props, r, high, low, offset) ==
  IF r.err THEN r
  ELSE IF low <= high
  THEN LET middle == low + ((high - low) \div 2)
           g == GetItemMetadata(props, middle, r)
       IN IF g.err THEN g
          ELSE IF g.meta = Undefined THEN Throw(g)
          ELSE IF g.meta.offset = offset THEN [g EXCEPT !.ret = middle]
          ELSE IF g.meta.offset < offset
          THEN FindNearestItemBinarySearch(props, g, high, middle + 1, offset)
          ELSE FindNearestItemBinarySearch(props, g, middle - 1, low, offset)
  ELSE [r EXCEPT !.ret = IF low > 0 THEN low - 1 ELSE 0]

\* The while loop of findNearestItemExponentialSearch; ret is the index it stops at.
RECURSIVE ExponentialProbe(_, _, _, _, _)
ExponentialProbe(props, r, index, interval, offset) ==
  IF r.err THEN r
  ELSE IF index < props.itemCount
  THEN LET g == GetItemMetadata(props, index, r)
       IN IF g.err THEN g
          ELSE IF g.meta = Undefined THEN Throw(g)
          ELSE IF g.meta.offset < offset
          THEN ExponentialProbe(props, g, index + interval, interval * 2, offset)
          ELSE [g EXCEPT !.ret = index]
  ELSE [r EXCEPT !.ret = index]

\* findNearestItemExponentialSearch with the bracket's low end at the probe that
\* stopped the loop instead of floor(index / 2).
FindNearestItemExponentialSearchNoBracket(props, r, index, offset) ==
  LET p == ExponentialProbe(props, r, index, 1, offset)
  IN IF p.err THEN p
     ELSE FindNearestItemBinarySearch(props, p, Min(p.ret, props.itemCount - 1),
                                      p.ret, offset)

\* findNearestItemExponentialSearch without Math.min(index, itemCount - 1): the
\* bracket's high end is the probe's last index, which may lie past the list.
FindNearestItemExponentialSearchNoMin(props, r, index, offset) ==
  LET p == ExponentialProbe(props, r, index, 1, offset)
  IN IF p.err THEN p
     ELSE FindNearestItemBinarySearch(props, p, p.ret, p.ret \div 2, offset)

FindNearestItemExponentialSearch(props, r, index, offset) ==
  LET p == ExponentialProbe(props, r, index, 1, offset)
  IN IF p.err THEN p
     ELSE FindNearestItemBinarySearch(props, p, Min(p.ret, props.itemCount - 1),
                                      p.ret \div 2, offset)

FindNearestItem(props, r, offset) ==
  LET map == r.ip.itemMetadataMap
      lastMeasuredIndex == r.ip.lastMeasuredIndex
  IN IF lastMeasuredIndex > 0 /\ Lookup(map, lastMeasuredIndex) = Undefined
     THEN Throw(r)
     ELSE LET lastMeasuredItemOffset ==
                IF lastMeasuredIndex > 0 THEN map[lastMeasuredIndex].offset ELSE 0
          IN IF lastMeasuredItemOffset >= offset
             THEN FindNearestItemBinarySearch(props, r, lastMeasuredIndex, 0, offset)
             ELSE FindNearestItemExponentialSearch(props, r, lastMeasuredIndex, offset)

(* ------------------------ getEstimatedTotalSize ----------------------- *)

\* getEstimatedTotalSize counting itemCount - lastMeasuredIndex unmeasured items.
GetEstimatedTotalSizeOffByOne(props, r) ==
  LET map == r.ip.itemMetadataMap
      lastMeasuredIndex == r.ip.lastMeasuredIndex
  IN IF r.err THEN r
     ELSE IF lastMeasuredIndex >= 0 /\ Lookup(map, lastMeasuredIndex) = Undefined
     THEN Throw(r)
     ELSE LET totalSizeOfMeasuredItems ==
                IF lastMeasuredIndex >= 0
                THEN map[lastMeasuredIndex].offset + map[lastMeasuredIndex].size
                ELSE 0
              numUnmeasuredItems == props.itemCount - lastMeasuredIndex
          IN [r EXCEPT !.ret = totalSizeOfMeasuredItems
                                + numUnmeasuredItems * r.ip.estimatedItemSize]

\* getEstimatedTotalSize measuring every item first, to return the exact total.
GetEstimatedTotalSizeMeasuring(props, r) ==
  LET g == GetItemMetadata(props, props.itemCount - 1, r)
  IN IF g.err THEN g
     ELSE IF g.meta = Undefined THEN Throw(g)
     ELSE [g EXCEPT !.ret = g.meta.offset + g.meta.size, !.meta = r.meta]

GetEstimatedTotalSize(props, r) ==
  LET map == r.ip.itemMetadataMap
      lastMeasuredIndex == r.ip.lastMeasuredIndex
  IN IF r.err THEN r
     ELSE IF lastMeasuredIndex >= 0 /\ Lookup(map, lastMeasuredIndex) = Undefined
     THEN Throw(r)
     ELSE LET totalSizeOfMeasuredItems ==
                IF lastMeasuredIndex >= 0
                THEN map[lastMeasuredIndex].offset + map[lastMeasuredIndex].size
                ELSE 0
              numUnmeasuredItems == props.itemCount - lastMeasuredIndex - 1
              totalSizeOfUnmeasuredItems == numUnmeasuredItems * r.ip.estimatedItemSize
          IN [r EXCEPT !.ret = totalSizeOfMeasuredItems + totalSizeOfUnmeasuredItems]

(* -------------------- the strategy's other functions ------------------ *)

GetItemOffset(props, index, r) ==
  LET g == GetItemMetadata(props, index, r)
  IN IF g.err THEN g
     ELSE IF g.meta = Undefined THEN Throw(g)
     ELSE [g EXCEPT !.ret = g.meta.offset]

\* getItemSize reading the entry's offset.
GetItemSizeReadsOffset(props, index, r) ==
  LET entry == Lookup(r.ip.itemMetadataMap, index)
  IN IF r.err THEN r
     ELSE IF entry = Undefined THEN Throw(r)
     ELSE [r EXCEPT !.ret = entry.offset]

\* getItemSize: the size in the store, read without measuring.
GetItemSize(props, index, r) ==
  LET entry == Lookup(r.ip.itemMetadataMap, index)
  IN IF r.err THEN r
     ELSE IF entry = Undefined THEN Throw(r)
     ELSE [r EXCEPT !.ret = entry.size]

\* The 'auto' case without its first test: it snaps even when the item is visible.
AlignAutoAlwaysSnap(scrollOffset, minOffset, maxOffset) ==
  IF scrollOffset - minOffset < maxOffset - scrollOffset THEN minOffset
  ELSE maxOffset

\* The 'auto' case comparing with <=: a tie goes to minOffset.
AlignAutoTiesToMin(scrollOffset, minOffset, maxOffset) ==
  IF scrollOffset >= minOffset /\ scrollOffset <= maxOffset THEN scrollOffset
  ELSE IF scrollOffset - minOffset <= maxOffset - scrollOffset THEN minOffset
  ELSE maxOffset

AlignAuto(scrollOffset, minOffset, maxOffset) ==
  IF scrollOffset >= minOffset /\ scrollOffset <= maxOffset THEN scrollOffset
  ELSE IF scrollOffset - minOffset < maxOffset - scrollOffset THEN minOffset
  ELSE maxOffset

\* getOffsetForIndexAndAlignment with getEstimatedTotalSize called before
\* getItemMetadata: the total is the estimate from before the item was measured.
GetOffsetForIndexAndAlignmentEarlyTotal(props, index, align, scrollOffset, r) ==
  LET size == props.height
      t == GetEstimatedTotalSize(props, r)
      g == GetItemMetadata(props, index, r)
  IN IF t.err THEN t
     ELSE IF g.err THEN g
     ELSE IF g.meta = Undefined THEN Throw(g)
     ELSE LET estimatedTotalSize == t.ret
              maxOffset == Min(estimatedTotalSize - size, g.meta.offset)
              minOffset == Max(0, g.meta.offset - size + g.meta.size)
          IN [g EXCEPT !.ret =
                CASE align = "start" -> maxOffset
                  [] align = "end" -> minOffset
                  [] align = "center" -> MathRoundHalf(2 * minOffset + (maxOffset - minOffset))
                  [] OTHER -> AlignAuto(scrollOffset, minOffset, maxOffset)]

\* getOffsetForIndexAndAlignment with minOffset not clamped by Math.max(0, ...).
GetOffsetForIndexAndAlignmentNoClamp(props, index, align, scrollOffset, r) ==
  LET size == props.height
      g == GetItemMetadata(props, index, r)
      t == GetEstimatedTotalSize(props, g)
  IN IF g.err THEN g
     ELSE IF t.err THEN t
     ELSE IF g.meta = Undefined THEN Throw(t)
     ELSE LET estimatedTotalSize == t.ret
              maxOffset == Min(estimatedTotalSize - size, g.meta.offset)
              minOffset == g.meta.offset - size + g.meta.size
          IN [t EXCEPT !.ret =
                CASE align = "start" -> maxOffset
                  [] align = "end" -> minOffset
                  [] align = "center" -> MathRoundHalf(2 * minOffset + (maxOffset - minOffset))
                  [] OTHER -> AlignAuto(scrollOffset, minOffset, maxOffset)]

GetOffsetForIndexAndAlignment(props, index, align, scrollOffset, r) ==
  LET size == props.height
      g == GetItemMetadata(props, index, r)
      t == GetEstimatedTotalSize(props, g)
  IN IF g.err THEN g
     ELSE IF t.err THEN t
     ELSE IF g.meta = Undefined THEN Throw(t)
     ELSE LET estimatedTotalSize == t.ret
              maxOffset == Min(estimatedTotalSize - size, g.meta.offset)
              minOffset == Max(0, g.meta.offset - size + g.meta.size)
          IN [t EXCEPT !.ret =
                CASE align = "start" -> maxOffset
                  [] align = "end" -> minOffset
                  [] align = "center" -> MathRoundHalf(2 * minOffset + (maxOffset - minOffset))
                  [] OTHER -> AlignAuto(scrollOffset, minOffset, maxOffset)]

GetStartIndexForOffset(props, offset, r) == FindNearestItem(props, r, offset)

\* The loop of getStopIndexForStartIndex going on while offset <= maxOffset.
RECURSIVE StopIndexLoopInclusive(_, _, _, _, _)
StopIndexLoopInclusive(props, r, stopIndex, offset, maxOffset) ==
  IF r.err THEN r
  ELSE IF stopIndex < props.itemCount - 1 /\ offset <= maxOffset
  THEN LET g == GetItemMetadata(props, stopIndex + 1, r)
       IN IF g.err THEN g
          ELSE IF g.meta = Undefined THEN Throw(g)
          ELSE StopIndexLoopInclusive(props, g, stopIndex + 1, offset + g.meta.size,
                                      maxOffset)
  ELSE [r EXCEPT !.ret = stopIndex]

\* The loop of getStopIndexForStartIndex testing the offset of the next item, which
\* it measures to look at it, instead of the running sum.
RECURSIVE StopIndexLoopLookahead(_, _, _, _, _)
StopIndexLoopLookahead(props, r, stopIndex, offset, maxOffset) ==
  IF r.err THEN r
  ELSE IF stopIndex < props.itemCount - 1
  THEN LET g == GetItemMetadata(props, stopIndex + 1, r)
       IN IF g.err THEN g
          ELSE IF g.meta = Undefined THEN Throw(g)
          ELSE IF g.meta.offset < maxOffset
          THEN StopIndexLoopLookahead(props, g, stopIndex + 1, offset + g.meta.size,
                                      maxOffset)
          ELSE [g EXCEPT !.ret = stopIndex]
  ELSE [r EXCEPT !.ret = stopIndex]

\* The while loop of getStopIndexForStartIndex.
RECURSIVE StopIndexLoop(_, _, _, _, _)
StopIndexLoop(props, r, stopIndex, offset, maxOffset) ==
  IF r.err THEN r
  ELSE IF stopIndex < props.itemCount - 1 /\ offset < maxOffset
  THEN LET g == GetItemMetadata(props, stopIndex + 1, r)
       IN IF g.err THEN g
          ELSE IF g.meta = Undefined THEN Throw(g)
          ELSE StopIndexLoop(props, g, stopIndex + 1, offset + g.meta.size, maxOffset)
  ELSE [r EXCEPT !.ret = stopIndex]

GetStopIndexForStartIndex(props, startIndex, scrollOffset, r) ==
  LET size == props.height
      g == GetItemMetadata(props, startIndex, r)
      maxOffset == scrollOffset + size
  IN IF g.err THEN g
     ELSE IF g.meta = Undefined THEN Throw(g)
     ELSE StopIndexLoop(props, g, startIndex, g.meta.offset + g.meta.size, maxOffset)

InitInstanceProps(estimatedItemSizeProp) ==
  [itemMetadataMap |-> EmptyMap,
   estimatedItemSize |-> IF estimatedItemSizeProp # 0 THEN estimatedItemSizeProp
                         ELSE DEFAULT_ESTIMATED_ITEM_SIZE,
   lastMeasuredIndex |-> -1]

\* validateProps reporting typeof itemSize also for null.
ValidatePropsTypeofOnly(itemSize, nodeEnv) ==
  IF nodeEnv # "production" /\ itemSize.typeof # "function"
  THEN [threw |-> TRUE,
        message |-> "An invalid \"itemSize\" prop has been specified. "
                    \o "Value should be a function. "
                    \o "\"" \o itemSize.typeof \o "\" was specified."]
  ELSE [threw |-> FALSE, message |-> ""]

\* validateProps({ itemSize }): what it throws, if it throws.
ValidateProps(itemSize, nodeEnv) ==
  IF nodeEnv # "production" /\ itemSize.typeof # "function"
  THEN [threw |-> TRUE,
        message |-> "An invalid \"itemSize\" prop has been specified. "
                    \o "Value should be a function. "
                    \o "\"" \o (IF itemSize.isNull THEN "null" ELSE itemSize.typeof)
                    \o "\" was specified."]
  ELSE [threw |-> FALSE, message |-> ""]

\* instance.resetAfterIndex without Math.min, as the file's earlier revision
\* (lines 254-256) has it.
ResetAfterIndexNoMin(ip, index) ==
  [ip EXCEPT !.lastMeasuredIndex = index - 1]

\* instance.resetAfterIndex deleting the entries above the new watermark as well.
ResetAfterIndexEvicting(ip, index) ==
  LET watermark == Min(ip.lastMeasuredIndex, index - 1)
      map == ip.itemMetadataMap
  IN [ip EXCEPT !.lastMeasuredIndex = watermark,
                !.itemMetadataMap = [j \in {k \in DOMAIN map : k <= watermark} |-> map[j]]]

\* The assignment instance.resetAfterIndex makes to instanceProps.
ResetAfterIndex(ip, index) ==
  [ip EXCEPT !.lastMeasuredIndex = Min(ip.lastMeasuredIndex, index - 1)]

(* ------------------------------ the render ----------------------------- *)

\* The rows of one render: the style of row `index` is made of getItemOffset and
\* then getItemSize of that index, row after row up to stopIndex.
RECURSIVE RenderRows(_, _, _, _)
RenderRows(props, r, index, stopIndex) ==
  IF r.err \/ index > stopIndex THEN r
  ELSE RenderRows(props,
                  GetItemSize(props, index, GetItemOffset(props, index, r)),
                  index + 1, stopIndex)

\* One render of the list at scrollOffset, as instance.forceUpdate() brings about:
\* the range to render is getStartIndexForOffset(scrollOffset) to
\* getStopIndexForStartIndex of it, widened by the one overscan row there always is
\* on either side and kept inside the list; every row of the range is styled; the
\* scrollable size is getEstimatedTotalSize, read after the rows.
Render(props, scrollOffset, r) ==
  LET start == GetStartIndexForOffset(props, scrollOffset, r)
      stop == GetStopIndexForStartIndex(props, start.ret, scrollOffset, start)
      firstRow == Max(0, start.ret - 1)
      lastRow == Max(0, Min(props.itemCount - 1, stop.ret + 1))
  IN GetEstimatedTotalSize(props, RenderRows(props, stop, firstRow, lastRow))

(* ------------------------------- state -------------------------------- *)

VARIABLES
  props,          \* the list's props: itemCount and itemSize
  instanceProps,  \* itemMetadataMap, estimatedItemSize, lastMeasuredIndex
  last            \* the call that has just run (its arguments and its outcome),
                  \* until its caller has taken the result; op = "none" otherwise

vars == <<props, instanceProps, last>>

\* The props of one call: the list's props and the height of that render.
PropsWith(height) ==
  [itemCount |-> props.itemCount, itemSize |-> props.itemSize, height |-> height]

Indices == 0..(props.itemCount - 1)

NoCall ==
  [op |-> "none", index |-> 0, offset |-> 0, height |-> 0, align |-> "auto",
   ret |-> 0, meta |-> Undefined, calls |-> <<>>, err |-> FALSE,
   preLastMeasuredIndex |-> -1]

\* Calls are synchronous and not re-entrant: one starts only when none is pending.
Idle == last.op = "none"

\* What a finished run leaves behind: the mutated instanceProps and the record of the call.
Finish(r, op, index, offset, height, align) ==
  /\ instanceProps' = r.ip
  /\ last' = [op |-> op, index |-> index, offset |-> offset, height |-> height,
              align |-> align,
              ret |-> IF r.err THEN 0 ELSE r.ret,
              meta |-> IF r.err THEN Undefined ELSE r.meta,
              calls |-> r.calls, err |-> r.err,
              preLastMeasuredIndex |-> instanceProps.lastMeasuredIndex]

Init ==
  /\ \E n \in ItemCounts :
       \E f \in ItemSizeFunctions :
         props = [itemCount |-> n, itemSize |-> f]
  /\ \E e \in EstimatedItemSizeProps : instanceProps = InitInstanceProps(e)
  /\ last = NoCall

\* getMetadata(index)
GetMetadata ==
  /\ Idle
  /\ \E index \in Indices :
       Finish([GetItemMetadata(PropsWith(0), index, NewRun(instanceProps))
                 EXCEPT !.ret = 0],
              "getMetadata", index, 0, 0, "auto")
  /\ UNCHANGED props

\* estimatedTotalSize()
EstimatedTotalSize ==
  /\ Idle
  /\ Finish(GetEstimatedTotalSize(PropsWith(0), NewRun(instanceProps)),
            "estimatedTotalSize", 0, 0, 0, "auto")
  /\ UNCHANGED props

\* findIndexForOffset(offset)
FindIndexForOffset ==
  /\ Idle
  /\ \E offset \in Offsets :
       Finish([GetStartIndexForOffset(PropsWith(0), offset, NewRun(instanceProps))
                 EXCEPT !.meta = Undefined],
              "findIndexForOffset", 0, offset, 0, "auto")
  /\ UNCHANGED props

\* findStopIndex(startIndex, scrollOffset, viewportSize)
FindStopIndex ==
  /\ Idle
  /\ \E startIndex \in Indices, scrollOffset \in ScrollOffsets, height \in Heights :
       Finish([GetStopIndexForStartIndex(PropsWith(height), startIndex, scrollOffset,
                                         NewRun(instanceProps))
                 EXCEPT !.meta = Undefined],
              "findStopIndex", startIndex, scrollOffset, height, "auto")
  /\ UNCHANGED props

\* getOffsetForAlignment(index, align, currentScrollOffset)
GetOffsetForAlignment ==
  /\ Idle
  /\ \E index \in Indices, align \in Aligns, scrollOffset \in ScrollOffsets,
        height \in Heights :
       Finish([GetOffsetForIndexAndAlignment(PropsWith(height), index, align,
                                             scrollOffset, NewRun(instanceProps))
                 EXCEPT !.meta = Undefined],
              "getOffsetForAlignment", index, scrollOffset, height, align)
  /\ UNCHANGED props

\* invalidateAfter(index): instance.resetAfterIndex(index), the whole of it.  The
\* watermark is lowered, the style cache (which is no part of this state) is emptied,
\* and forceUpdate() renders the list again before the call returns, at the scroll
\* position and with the height the list has at that moment.  `reset` keeps the
\* instanceProps as the assignment left them, before the render measured anything.
InvalidateAfter ==
  /\ Idle
  /\ \E index \in Indices, scrollOffset \in ScrollOffsets, height \in Heights :
       LET reset == ResetAfterIndex(instanceProps, index)
       IN \E r \in {Render(PropsWith(height), scrollOffset, NewRun(reset))} :
            /\ instanceProps' = r.ip
            /\ last' = [op |-> "invalidateAfter", index |-> index,
                        offset |-> scrollOffset, height |-> height, align |-> "auto",
                        ret |-> 0, meta |-> Undefined, calls |-> r.calls,
                        err |-> r.err,
                        preLastMeasuredIndex |-> instanceProps.lastMeasuredIndex,
                        reset |-> reset]
  /\ UNCHANGED props

\* A re-render with another itemSize function.
SetItemSize ==
  /\ Idle
  /\ \E g \in ItemSizeFunctions :
       /\ g # props.itemSize
       /\ props' = [props EXCEPT !.itemSize = g]
  /\ last' = [NoCall EXCEPT !.op = "setItemSize",
                            !.preLastMeasuredIndex = instanceProps.lastMeasuredIndex]
  /\ UNCHANGED instanceProps

\* The caller takes the outcome of the call; the list is idle again.
Return ==
  /\ ~Idle
  /\ last' = NoCall
  /\ UNCHANGED <<props, instanceProps>>

Next ==
  \/ GetMetadata
  \/ EstimatedTotalSize
  \/ FindIndexForOffset
  \/ FindStopIndex
  \/ GetOffsetForAlignment
  \/ InvalidateAfter
  \/ SetItemSize
  \/ Return

Spec == Init /\ [][Next]_vars

\* A list with an item taller than the viewport, rendered with one itemSize
\* function throughout.
InitTall ==
  /\ \E n \in ItemCounts :
       \E f \in TallItemSizeFunctions :
         props = [itemCount |-> n, itemSize |-> f]
  /\ \E e \in EstimatedItemSizeProps : instanceProps = InitInstanceProps(e)
  /\ last = NoCall

NextTall ==
  \/ GetMetadata
  \/ EstimatedTotalSize
  \/ FindIndexForOffset
  \/ FindStopIndex
  \/ GetOffsetForAlignment
  \/ InvalidateAfter
  \/ Return

SpecTall == InitTall /\ [][NextTall]_vars

\* A list as it is constructed, before its props are validated: itemSize may be any
\* value; itemSizeProp tells its typeof and whether it is null, itemSize is its graph
\* when it is a function (and empty otherwise).
InitValidate ==
  /\ \E n \in ItemCounts, v \in ItemSizePropValues :
       \E f \in (IF v.typeof = "function" THEN ItemSizeFunctions ELSE {<<>>}) :
         props = [itemCount |-> n, itemSize |-> f, itemSizeProp |-> v]
  /\ \E e \in EstimatedItemSizeProps : instanceProps = InitInstanceProps(e)
  /\ last = [NoCall EXCEPT !.op = "constructed"]

\* validateProps(props) runs once, before the first render calls into the strategy.
ValidatePropsStep ==
  /\ last.op = "constructed"
  /\ \E nodeEnv \in NodeEnvs :
       LET v == ValidateProps(props.itemSizeProp, nodeEnv)
       IN last' = [op |-> "validateProps", index |-> 0, offset |-> 0, height |-> 0,
                   align |-> "auto", ret |-> 0, meta |-> Undefined, calls |-> <<>>,
                   err |-> v.threw,
                   preLastMeasuredIndex |-> instanceProps.lastMeasuredIndex,
                   message |-> v.message, nodeEnv |-> nodeEnv]
  /\ UNCHANGED <<props, instanceProps>>

\* Return, but a list whose validation threw is never rendered.  (A list that got a
\* non-function itemSize past a production build throws "itemSize is not a function"
\* at its first measurement; it is not followed further.)
ReturnValidated ==
  /\ last.op # "constructed"
  /\ last.op = "validateProps" => (~last.err /\ props.itemSizeProp.typeof = "function")
  /\ Return

NextValidate ==
  \/ ValidatePropsStep
  \/ GetMetadata
  \/ EstimatedTotalSize
  \/ InvalidateAfter
  \/ ReturnValidated

SpecValidate == InitValidate /\ [][NextValidate]_vars

\* A re-render with another itemCount and the same itemSize function.  Nothing in
\* the strategy runs when a prop changes.
SetItemCount ==
  /\ Idle
  /\ \E n \in ItemCounts \ {props.itemCount} :
       props' = [props EXCEPT !.itemCount = n]
  /\ last' = [NoCall EXCEPT !.op = "setItemCount",
                            !.preLastMeasuredIndex = instanceProps.lastMeasuredIndex]
  /\ UNCHANGED instanceProps

NextResize ==
  \/ GetMetadata
  \/ EstimatedTotalSize
  \/ FindIndexForOffset
  \/ InvalidateAfter
  \/ SetItemCount
  \/ Return

\* A list whose itemCount changes between renders.
SpecResize == Init /\ [][NextResize]_vars

\* getItemSize(index)
GetItemSizeOf ==
  /\ Idle
  /\ \E index \in Indices :
       Finish(GetItemSize(PropsWith(0), index, NewRun(instanceProps)),
              "getItemSize", index, 0, 0, "auto")
  /\ UNCHANGED props

NextItemSize ==
  \/ GetMetadata
  \/ FindIndexForOffset
  \/ GetItemSizeOf
  \/ InvalidateAfter
  \/ SetItemSize
  \/ Return

\* A list whose getItemSize is called on its own, in any state.
SpecItemSize == Init /\ [][NextItemSize]_vars

(* ------------------- the loops, one iteration a step ------------------ *)

\* In SpecSteps a call is not one step: `last` is the activation record of the call
\* in progress (its arguments, its loop variables and pc, the label of the loop it
\* is in), and every iteration of a while or for loop is a step of its own.  A
\* getItemMetadata made inside an iteration of a search or of the walk is part of
\* that iteration; its own for loop is stepped where getMetadata and
\* getOffsetForAlignment call it.  `expect` keeps what the same call gives when it
\* is run in one piece from the state it started in.  invalidateAfter stays one
\* step, its render included: the loops of that render are the loops of
\* findIndexForOffset, findStopIndex and getMetadata, stepped here on their own.

\* No loop reads the estimate or the scroll position handed to getOffsetForAlignment,
\* and the walk reads the viewport only through scrollOffset + height: SpecSteps
\* draws them from these smaller sets.
StepHeights == {1, MaxHeight}

StepScrollOffsets == {0}

StepOps == {"findIndexForOffset", "findStopIndex", "getMetadata", "getOffsetForAlignment"}

Frame ==
  [op |-> "none", pc |-> "done", target |-> 0, index |-> 0, interval |-> 0,
   low |-> 0, high |-> 0, acc |-> 0, height |-> 0, align |-> "auto", scroll |-> 0,
   ret |-> 0, err |-> FALSE,
   expect |-> [ip |-> InitInstanceProps(0), ret |-> 0, err |-> FALSE]]

Expect(r) == [ip |-> r.ip, ret |-> IF r.err THEN 0 ELSE r.ret, err |-> r.err]

InStep(op, pc) == last.op = op /\ last.pc = pc

\* A TypeError ends the call.
StepThrows(ip) ==
  /\ instanceProps' = ip
  /\ last' = [last EXCEPT !.pc = "done", !.err = TRUE]

\* findNearestItem up to the search it hands over to.
StartFindIndexForOffset ==
  /\ Idle
  /\ \E offset \in Offsets :
       LET map == instanceProps.itemMetadataMap
           lastMeasuredIndex == instanceProps.lastMeasuredIndex
           f == [Frame EXCEPT
                   !.op = "findIndexForOffset", !.target = offset,
                   !.expect = Expect(GetStartIndexForOffset(PropsWith(0), offset,
                                                            NewRun(instanceProps)))]
       IN IF lastMeasuredIndex > 0 /\ Lookup(map, lastMeasuredIndex) = Undefined
          THEN last' = [f EXCEPT !.pc = "done", !.err = TRUE]
          ELSE LET lastMeasuredItemOffset ==
                     IF lastMeasuredIndex > 0 THEN map[lastMeasuredIndex].offset ELSE 0
               IN IF lastMeasuredItemOffset >= offset
                  THEN last' = [f EXCEPT !.pc = "bsearch",
                                         !.high = lastMeasuredIndex, !.low = 0]
                  ELSE last' = [f EXCEPT !.pc = "probe",
                                         !.index = lastMeasuredIndex, !.interval = 1]
  /\ UNCHANGED <<props, instanceProps>>

\* One test of the while loop of findNearestItemExponentialSearch, and its body or
\* the hand-over to the binary search.
ProbeStep ==
  /\ InStep("findIndexForOffset", "probe")
  /\ IF last.index < props.itemCount
     THEN LET g == GetItemMetadata(PropsWith(0), last.index, NewRun(instanceProps))
          IN IF g.err \/ g.meta = Undefined THEN StepThrows(g.ip)
             ELSE /\ instanceProps' = g.ip
                  /\ IF g.meta.offset < last.target
                     THEN last' = [last EXCEPT !.index = @ + last.interval,
                                               !.interval = @ * 2]
                     ELSE last' = [last EXCEPT
                                     !.pc = "bsearch",
                                     !.high = Min(last.index, props.itemCount - 1),
                                     !.low = last.index \div 2]
     ELSE /\ last' = [last EXCEPT !.pc = "bsearch",
                                  !.high = Min(last.index, props.itemCount - 1),
                                  !.low = last.index \div 2]
          /\ UNCHANGED instanceProps
  /\ UNCHANGED props

\* BinaryStep with "low = middle" for "low = middle + 1".
BinaryStepLowAtMiddle ==
  /\ InStep("findIndexForOffset", "bsearch")
  /\ IF last.low <= last.high
     THEN LET middle == last.low + ((last.high - last.low) \div 2)
              g == GetItemMetadata(PropsWith(0), middle, NewRun(instanceProps))
          IN IF g.err \/ g.meta = Undefined THEN StepThrows(g.ip)
             ELSE /\ instanceProps' = g.ip
                  /\ IF g.meta.offset = last.target
                     THEN last' = [last EXCEPT !.pc = "done", !.ret = middle]
                     ELSE IF g.meta.offset < last.target
                     THEN last' = [last EXCEPT !.low = middle]
                     ELSE last' = [last EXCEPT !.high = middle - 1]
     ELSE /\ last' = [last EXCEPT !.pc = "done",
                                  !.ret = IF last.low > 0 THEN last.low - 1 ELSE 0]
          /\ UNCHANGED instanceProps
  /\ UNCHANGED props

\* One test of the while loop of findNearestItemBinarySearch, and its body or the
\* return after it.
BinaryStep ==
  /\ InStep("findIndexForOffset", "bsearch")
  /\ IF last.low <= last.high
     THEN LET middle == last.low + ((last.high - last.low) \div 2)
              g == GetItemMetadata(PropsWith(0), middle, NewRun(instanceProps))
          IN IF g.err \/ g.meta = Undefined THEN StepThrows(g.ip)
             ELSE /\ instanceProps' = g.ip
                  /\ IF g.meta.offset = last.target
                     THEN last' = [last EXCEPT !.pc = "done", !.ret = middle]
                     ELSE IF g.meta.offset < last.target
                     THEN last' = [last EXCEPT !.low = middle + 1]
                     ELSE last' = [last EXCEPT !.high = middle - 1]
     ELSE /\ last' = [last EXCEPT !.pc = "done",
                                  !.ret = IF last.low > 0 THEN last.low - 1 ELSE 0]
          /\ UNCHANGED instanceProps
  /\ UNCHANGED props

\* getStopIndexForStartIndex up to its while loop.
StartFindStopIndex ==
  /\ Idle
  /\ \E startIndex \in Indices, scrollOffset \in ScrollOffsets, height \in StepHeights :
       LET g == GetItemMetadata(PropsWith(height), startIndex, NewRun(instanceProps))
           f == [Frame EXCEPT
                   !.op = "findStopIndex", !.scroll = scrollOffset, !.height = height,
                   !.index = startIndex,
                   !.expect = Expect(GetStopIndexForStartIndex(
                                PropsWith(height), startIndex, scrollOffset,
                                NewRun(instanceProps)))]
       IN /\ instanceProps' = g.ip
          /\ IF g.err \/ g.meta = Undefined
             THEN last' = [f EXCEPT !.pc = "done", !.err = TRUE]
             ELSE last' = [f EXCEPT !.pc = "walk",
                                    !.target = scrollOffset + height,
                                    !.acc = g.meta.offset + g.meta.size]
  /\ UNCHANGED props

\* One test of the while loop of getStopIndexForStartIndex, and its body or the return.
WalkStep ==
  /\ InStep("findStopIndex", "walk")
  /\ IF last.index < props.itemCount - 1 /\ last.acc < last.target
     THEN LET g == GetItemMetadata(PropsWith(last.height), last.index + 1,
                                   NewRun(instanceProps))
          IN IF g.err \/ g.meta = Undefined THEN StepThrows(g.ip)
             ELSE /\ instanceProps' = g.ip
                  /\ last' = [last EXCEPT !.index = @ + 1, !.acc = @ + g.meta.size]
     ELSE /\ last' = [last EXCEPT !.pc = "done", !.ret = last.index]
          /\ UNCHANGED instanceProps
  /\ UNCHANGED props

\* getItemMetadata(index) up to its for loop, as getMetadata and
\* getOffsetForAlignment call it: f is the frame of the caller.
EnterGetItemMetadata(f, index) ==
  LET map == instanceProps.itemMetadataMap
      lastMeasuredIndex == instanceProps.lastMeasuredIndex
      after == IF f.op = "getMetadata" THEN "done" ELSE "align"
  IN IF index > lastMeasuredIndex
     THEN IF lastMeasuredIndex >= 0 /\ Lookup(map, lastMeasuredIndex) = Undefined
          THEN last' = [f EXCEPT !.pc = "done", !.err = TRUE]
          ELSE last' = [f EXCEPT
                          !.pc = "fill", !.index = index,
                          !.low = lastMeasuredIndex + 1,
                          !.acc = IF lastMeasuredIndex >= 0
                                  THEN map[lastMeasuredIndex].offset
                                       + map[lastMeasuredIndex].size
                                  ELSE 0]
     ELSE last' = [f EXCEPT !.pc = after, !.index = index]

StartGetMetadata ==
  /\ Idle
  /\ \E index \in Indices :
       EnterGetItemMetadata(
         [Frame EXCEPT
            !.op = "getMetadata",
            !.expect = Expect([GetItemMetadata(PropsWith(0), index,
                                               NewRun(instanceProps))
                                 EXCEPT !.ret = 0])],
         index)
  /\ UNCHANGED <<props, instanceProps>>

StartGetOffsetForAlignment ==
  /\ Idle
  /\ \E index \in Indices, align \in Aligns, scrollOffset \in StepScrollOffsets,
        height \in StepHeights :
       EnterGetItemMetadata(
         [Frame EXCEPT
            !.op = "getOffsetForAlignment", !.align = align,
            !.scroll = scrollOffset, !.height = height,
            !.expect = Expect(GetOffsetForIndexAndAlignment(
                                PropsWith(height), index, align, scrollOffset,
                                NewRun(instanceProps)))],
         index)
  /\ UNCHANGED <<props, instanceProps>>

\* One test of the for loop of getItemMetadata (i is last.low, offset is last.acc),
\* and its body or the assignment to lastMeasuredIndex after it.
FillStep ==
  /\ last.op \in {"getMetadata", "getOffsetForAlignment"}
  /\ last.pc = "fill"
  /\ IF last.low <= last.index
     THEN LET size == ItemSizeCall(props, last.low)
          IN /\ instanceProps' =
                  [instanceProps EXCEPT
                     !.itemMetadataMap =
                        Put(@, last.low, [offset |-> last.acc, size |-> size])]
             /\ last' = [last EXCEPT !.low = @ + 1, !.acc = @ + size]
     ELSE /\ instanceProps' = [instanceProps EXCEPT !.lastMeasuredIndex = last.index]
          /\ last' = [last EXCEPT
                        !.pc = IF last.op = "getMetadata" THEN "done" ELSE "align"]
  /\ UNCHANGED props

\* getOffsetForIndexAndAlignment after its getItemMetadata has returned.
AlignStep ==
  /\ InStep("getOffsetForAlignment", "align")
  /\ LET r == GetOffsetForIndexAndAlignment(PropsWith(last.height), last.index,
                                            last.align, last.scroll,
                                            NewRun(instanceProps))
     IN /\ instanceProps' = r.ip
        /\ last' = [last EXCEPT !.pc = "done", !.err = r.err,
                                !.ret = IF r.err THEN 0 ELSE r.ret]
  /\ UNCHANGED props

\* A call in progress, and a call that has returned or thrown.
Running == last.op \in StepOps /\ last.pc # "done"

Done == last.op \in StepOps /\ last.pc = "done"

\* Return once the call is over.
ReturnStep ==
  /\ last.op \in {"invalidateAfter", "setItemSize"} \/ Done
  /\ Return

\* The steps of a call in progress: a synchronous call runs on until it returns.
RunningStep ==
  \/ ProbeStep
  \/ BinaryStep
  \/ WalkStep
  \/ FillStep
  \/ AlignStep

NextSteps ==
  \/ StartFindIndexForOffset
  \/ StartFindStopIndex
  \/ StartGetMetadata
  \/ StartGetOffsetForAlignment
  \/ RunningStep
  \/ InvalidateAfter
  \/ SetItemSize
  \/ ReturnStep

\* Lists created without an estimatedItemSize prop.
InitSteps ==
  /\ Init
  /\ instanceProps = InitInstanceProps(0)

SpecSteps == InitSteps /\ [][NextSteps]_vars /\ WF_vars(RunningStep)

(* --------------------- what the claims speak about -------------------- *)

Map == instanceProps.itemMetadataMap

LastMeasured == instanceProps.lastMeasuredIndex

\* The instanceProps the measuring of a step starts from: those resetAfterIndex's
\* assignment left when the step is invalidateAfter (its render measures from
\* there), those of the state before the step otherwise.
StepStart ==
  IF last'.op = "invalidateAfter" THEN last'.reset ELSE instanceProps

\* The sum of the sizes stored in map for the items 0..i.
RECURSIVE SumStored(_, _)
SumStored(map, i) == IF i < 0 THEN 0 ELSE map[i].size + SumStored(map, i - 1)

\* The sum of f[lo], ..., f[hi].
RECURSIVE SumOf(_, _, _)
SumOf(f, lo, hi) == IF hi < lo THEN 0 ELSE f[hi] + SumOf(f, lo, hi - 1)

\* The size item i has: the measured one, or the one itemSize will give when it is measured.
ExactSize(i) == IF i <= LastMeasured THEN Map[i].size ELSE props.itemSize[i]

RECURSIVE ExactOffset(_)
ExactOffset(i) == IF i <= 0 THEN 0 ELSE ExactOffset(i - 1) + ExactSize(i - 1)

ExactTotalSize == ExactOffset(props.itemCount)

\* offset(lastMeasuredIndex) + size(lastMeasuredIndex), 0 when nothing is measured,
\* plus the estimate for the items not measured.
TotalOf(ip, itemCount) ==
  (IF ip.lastMeasuredIndex = -1 THEN 0
   ELSE ip.itemMetadataMap[ip.lastMeasuredIndex].offset
        + ip.itemMetadataMap[ip.lastMeasuredIndex].size)
  + (itemCount - ip.lastMeasuredIndex - 1) * ip.estimatedItemSize

Abs(x) == IF x < 0 THEN -x ELSE x

\* The bounds getOffsetForAlignment works with, read off the store after the call.
MinOffsetOf(index, height) ==
  Max(0, Map[index].offset - height + Map[index].size)

MaxOffsetOf(index, height) ==
  Min(TotalOf(instanceProps, props.itemCount) - height, Map[index].offset)

AutoCall ==
  /\ last.op = "getOffsetForAlignment"
  /\ last.align = "auto"
  /\ ~last.err

(* ------------------------------- claims ------------------------------- *)

\* C1: in every reachable state the store holds an entry for every index in
\* [0, lastMeasuredIndex], entry 0 has offset 0, each next stored offset is the
\* previous offset plus the previous size, and so each stored offset is the exact
\* sum of the stored sizes of the items before it.
C1_StoreOffsetsAreCumulative ==
  /\ LastMeasured \in -1..(props.itemCount - 1)
  /\ 0..LastMeasured \subseteq DOMAIN Map
  /\ LastMeasured >= 0 => Map[0].offset = 0
  /\ \A i \in 0..(LastMeasured - 1) :
       Map[i + 1].offset = Map[i].offset + Map[i].size
  /\ \A i \in 0..LastMeasured : Map[i].offset = SumStored(Map, i - 1)

\* C1 witness: a search has measured three items of differing sizes.
C1_Witness ==
  /\ last.op = "findIndexForOffset"
  /\ last.calls # <<>>
  /\ LastMeasured >= 2
  /\ Map[1].size # Map[0].size
  /\ Map[2].offset = Map[0].size + Map[1].size

\* C2: with at least one item measured and all sizes positive, findIndexForOffset(o)
\* for 0 <= o < exact total size returns the unique index i with
\* offset(i) <= o < offset(i) + size(i), on the binary-search branch as on the
\* exponential-probe branch; for o >= exact total size it returns itemCount - 1.
C2_FindIndexForOffsetIsCorrect ==
  ( /\ last.op = "findIndexForOffset"
    /\ last.preLastMeasuredIndex >= 0
    /\ last.offset >= 0
    /\ \A i \in Indices : ExactSize(i) > 0 )
  => /\ ~last.err
     /\ last.ret \in Indices
     /\ IF last.offset < ExactTotalSize
        THEN /\ last.ret <= LastMeasured
             /\ Map[last.ret].offset <= last.offset
             /\ last.offset < Map[last.ret].offset + Map[last.ret].size
             /\ \A i \in Indices :
                  (ExactOffset(i) <= last.offset
                   /\ last.offset < ExactOffset(i) + ExactSize(i)) => i = last.ret
        ELSE last.ret = props.itemCount - 1

\* C2 witness: the exponential probe ran from a measured item (the target lay beyond
\* the measured range), measured further items and found an item strictly inside the list.
C2_Witness ==
  /\ last.op = "findIndexForOffset"
  /\ last.preLastMeasuredIndex >= 0
  /\ ~last.err
  /\ Len(last.calls) >= 2
  /\ Map[last.preLastMeasuredIndex].offset < last.offset
  /\ last.offset < ExactTotalSize
  /\ last.ret > last.preLastMeasuredIndex
  /\ Map[last.ret].offset < last.offset

\* C3 (as claimed): findIndexForOffset(o) returns 0 without raising an error whenever
\* o <= 0, and for every o whenever nothing is measured yet (lastMeasuredIndex = -1).
C3_ReturnsZeroWithoutError ==
  ( /\ last.op = "findIndexForOffset"
    /\ (last.offset <= 0 \/ last.preLastMeasuredIndex = -1) )
  => (~last.err /\ last.ret = 0)

\* C4: in every reachable state estimatedTotalSize() is
\* offset(L) + size(L) (0 when L = -1) plus (itemCount - L - 1) * estimatedItemSize;
\* that is the sum of the measured sizes plus the estimate for the rest, and the
\* exact sum of the sizes once every item is measured.
C4_EstimatedTotalSize ==
  LET t == GetEstimatedTotalSize(PropsWith(0), NewRun(instanceProps))
      unmeasured == props.itemCount - LastMeasured - 1
  IN /\ ~t.err
     /\ t.ret = (IF LastMeasured = -1 THEN 0
                 ELSE Map[LastMeasured].offset + Map[LastMeasured].size)
                + unmeasured * instanceProps.estimatedItemSize
     /\ t.ret = SumStored(Map, LastMeasured)
                + unmeasured * instanceProps.estimatedItemSize
     /\ LastMeasured = props.itemCount - 1 => t.ret = ExactTotalSize
     /\ last.op = "estimatedTotalSize" => (~last.err /\ last.ret = t.ret)

\* C4 witness: estimatedTotalSize() was called after an invalidation left a stale
\* entry above the watermark, with some items measured and some not.
C4_Witness ==
  /\ last.op = "estimatedTotalSize"
  /\ LastMeasured >= 0
  /\ LastMeasured < props.itemCount - 1
  /\ (LastMeasured + 1) \in DOMAIN Map
  /\ last.ret = SumStored(Map, LastMeasured)
                + (props.itemCount - LastMeasured - 1) * instanceProps.estimatedItemSize

\* C5: with lastMeasuredIndex = k - 1 after invalidateAfter(k), measuring through
\* index n - 1 invokes the current itemSize exactly once for each of k..n-1, in
\* order, and for no index below k; the entries 0..k-1 stay as they were, the
\* entries k..n-1 hold the current itemSize's sizes at offsets re-derived from entry
\* k - 1, and estimatedTotalSize() is the sum of the old sizes of 0..k-1 and the new
\* sizes of k..n-1.  The render that invalidateAfter(k) ends with does the first
\* part of that measuring, in the same way: it invokes the current itemSize once
\* for each index from k up to the watermark it leaves, in order, and for no other.
C5_RemeasuresFromTheWatermark ==
  [][ /\ ( /\ last'.op = "getMetadata"
            /\ last'.index = props.itemCount - 1
            /\ LastMeasured < props.itemCount - 1 )
          => LET n == props.itemCount
                 k == LastMeasured + 1
                 map2 == instanceProps'.itemMetadataMap
             IN /\ ~last'.err
                /\ last'.calls = [j \in 1..(n - k) |-> k + j - 1]
                /\ instanceProps'.lastMeasuredIndex = n - 1
                /\ \A i \in 0..(k - 1) : map2[i] = Map[i]
                /\ \A i \in k..(n - 1) :
                     /\ map2[i].size = props.itemSize[i]
                     /\ map2[i].offset = IF i = 0 THEN 0
                                         ELSE map2[i - 1].offset + map2[i - 1].size
                /\ TotalOf(instanceProps', n)
                     = SumStored(Map, k - 1) + SumOf(props.itemSize, k, n - 1)
                /\ last'.meta = map2[n - 1]
      /\ last'.op = "invalidateAfter"
          => LET k == last'.reset.lastMeasuredIndex + 1
                 m == instanceProps'.lastMeasuredIndex
                 map2 == instanceProps'.itemMetadataMap
             IN /\ m >= k - 1
                /\ last'.calls = [j \in 1..(m - k + 1) |-> k + j - 1]
                /\ \A i \in 0..(k - 1) : map2[i] = Map[i]
                /\ \A i \in k..m :
                     /\ map2[i].size = props.itemSize[i]
                     /\ map2[i].offset = IF i = 0 THEN 0
                                         ELSE map2[i - 1].offset + map2[i - 1].size
                /\ TotalOf(instanceProps', props.itemCount)
                     = SumStored(Map, k - 1) + SumOf(props.itemSize, k, m)
                       + (props.itemCount - m - 1) * instanceProps.estimatedItemSize
    ]_vars

\* C5 witness: after a new itemSize and an invalidation, getMetadata(n - 1) measured
\* the tail k..n-1 (two items or more) while an entry below k keeps a size the
\* current itemSize would not give.
C5_Witness ==
  /\ last.op = "getMetadata"
  /\ last.index = props.itemCount - 1
  /\ last.preLastMeasuredIndex >= 0
  /\ Len(last.calls) >= 2
  /\ last.calls[1] = last.preLastMeasuredIndex + 1
  /\ \E i \in 0..last.preLastMeasuredIndex : Map[i].size # props.itemSize[i]
  /\ TotalOf(instanceProps, props.itemCount)
       = SumStored(Map, last.preLastMeasuredIndex)
         + SumOf(props.itemSize, last.preLastMeasuredIndex + 1, props.itemCount - 1)

\* The watermark the assignment of invalidateAfter(k) gives: min(old, k - 1).
ResetWatermark == Min(last.preLastMeasuredIndex, last.index - 1)

\* C6 (as claimed): invalidateAfter(k) sets lastMeasuredIndex to min(old
\* lastMeasuredIndex, k - 1): when the call has returned the watermark is that
\* minimum, not above the old one, and unchanged when k - 1 was above the old one.
C6_WatermarkIsTheMinimumOnReturn ==
  last.op = "invalidateAfter"
  => /\ LastMeasured = ResetWatermark
     /\ LastMeasured <= last.preLastMeasuredIndex
     /\ last.index - 1 > last.preLastMeasuredIndex
          => LastMeasured = last.preLastMeasuredIndex

\* C6 (amended): invalidateAfter(k) first sets lastMeasuredIndex to min(old
\* lastMeasuredIndex, k - 1), which is never above the old one and is the old one
\* when k - 1 is above it, and then renders the list before it returns.  When it
\* has returned the watermark is at or above that minimum, and above it only by
\* what the render measured: every index above the minimum and at or below the
\* watermark was measured in the call, with the current itemSize, so no unmeasured
\* index counts as measured; a render that measured nothing leaves the minimum.
C6_InvalidateLowersThenRenderMeasures ==
  last.op = "invalidateAfter"
  => /\ last.reset.lastMeasuredIndex = ResetWatermark
     /\ last.reset.lastMeasuredIndex <= last.preLastMeasuredIndex
     /\ last.index - 1 > last.preLastMeasuredIndex
          => last.reset.lastMeasuredIndex = last.preLastMeasuredIndex
     /\ LastMeasured >= ResetWatermark
     /\ \A i \in (ResetWatermark + 1)..LastMeasured :
          /\ \E j \in 1..Len(last.calls) : last.calls[j] = i
          /\ i \in DOMAIN Map
          /\ Map[i].size = props.itemSize[i]
     /\ last.calls = <<>> => LastMeasured = ResetWatermark

\* C6 witness: invalidateAfter(k) was called with k - 1 above the watermark, which
\* the assignment left where it was; the render that followed measured the item
\* after it, and the call returned with the watermark above the old one.
C6_Witness ==
  /\ last.op = "invalidateAfter"
  /\ last.preLastMeasuredIndex >= 0
  /\ last.index - 1 > last.preLastMeasuredIndex
  /\ last.reset.lastMeasuredIndex = last.preLastMeasuredIndex
  /\ last.calls = <<last.preLastMeasuredIndex + 1>>
  /\ LastMeasured = last.preLastMeasuredIndex + 1

\* C7: a new itemSize alone changes neither the store, nor lastMeasuredIndex, nor
\* estimatedTotalSize(); and through every later operation other than
\* invalidateAfter the entries at or below the watermark stay as measured and
\* getMetadata(i) for i <= lastMeasuredIndex returns the stored entry.
C7_NewItemSizeAloneChangesNothing ==
  [][ /\ last'.op = "setItemSize"
        => /\ instanceProps' = instanceProps
           /\ TotalOf(instanceProps', props'.itemCount)
                = TotalOf(instanceProps, props.itemCount)
      /\ last'.op \notin {"invalidateAfter", "none"}
        => /\ instanceProps'.lastMeasuredIndex >= LastMeasured
           /\ \A i \in 0..LastMeasured :
                /\ i \in DOMAIN instanceProps'.itemMetadataMap
                /\ instanceProps'.itemMetadataMap[i] = Map[i]
      /\ (last'.op = "getMetadata" /\ last'.index <= LastMeasured)
        => /\ ~last'.err
           /\ last'.meta = Map[last'.index]
           /\ last'.calls = <<>> ]_vars

\* C7 witness: getMetadata(i) of a measured item returned a size the current
\* itemSize would not give, the one measured before itemSize was replaced.
C7_Witness ==
  /\ last.op = "getMetadata"
  /\ last.index <= last.preLastMeasuredIndex
  /\ last.calls = <<>>
  /\ last.meta = Map[last.index]
  /\ last.meta.size # props.itemSize[last.index]

\* C8: findStopIndex(startIndex, scrollOffset, viewportSize) returns r with
\* startIndex <= r <= itemCount - 1, every j in (startIndex, r] starts below
\* scrollOffset + viewportSize, and r = itemCount - 1 or item r ends at or past
\* scrollOffset + viewportSize.
C8_FindStopIndexIsCorrect ==
  last.op = "findStopIndex"
  => /\ ~last.err
     /\ last.index <= last.ret
     /\ last.ret <= props.itemCount - 1
     /\ last.ret <= LastMeasured
     /\ \A j \in (last.index + 1)..last.ret :
          Map[j].offset < last.offset + last.height
     /\ \/ last.ret = props.itemCount - 1
        \/ Map[last.ret].offset + Map[last.ret].size >= last.offset + last.height

\* C8 witness: the walk measured items, advanced past startIndex and stopped before
\* the last item because the viewport was filled.
C8_Witness ==
  /\ last.op = "findStopIndex"
  /\ last.calls # <<>>
  /\ last.ret > last.index
  /\ last.ret < props.itemCount - 1
  /\ Map[last.ret].offset < last.offset + last.height
  /\ Map[last.ret].offset + Map[last.ret].size >= last.offset + last.height

\* C9: getOffsetForAlignment(index, 'auto', s) returns s itself whenever
\* minOffset <= s <= maxOffset.
C9_AutoKeepsVisibleItem ==
  ( /\ last.op = "getOffsetForAlignment"
    /\ last.align = "auto"
    /\ ~last.err
    /\ MinOffsetOf(last.index, last.height) <= last.offset
    /\ last.offset <= MaxOffsetOf(last.index, last.height) )
  => last.ret = last.offset

\* C9 witness: an 'auto' call with s strictly between minOffset and maxOffset.
C9_Witness ==
  /\ AutoCall
  /\ MinOffsetOf(last.index, last.height) < last.offset
  /\ last.offset < MaxOffsetOf(last.index, last.height)
  /\ last.ret = last.offset

\* C10 (as claimed): getOffsetForAlignment(index, 'auto', s) with s outside
\* [minOffset, maxOffset] returns whichever of minOffset and maxOffset has the
\* smaller distance |s - x|, also when maxOffset < minOffset.
C10_AutoReturnsTheCloserBound ==
  ( /\ AutoCall
    /\ ~( /\ MinOffsetOf(last.index, last.height) <= last.offset
          /\ last.offset <= MaxOffsetOf(last.index, last.height) ) )
  => LET minOffset == MinOffsetOf(last.index, last.height)
         maxOffset == MaxOffsetOf(last.index, last.height)
     IN /\ last.ret \in {minOffset, maxOffset}
        /\ Abs(last.offset - minOffset) < Abs(last.offset - maxOffset)
             => last.ret = minOffset
        /\ Abs(last.offset - maxOffset) < Abs(last.offset - minOffset)
             => last.ret = maxOffset

\* The 'auto' call was a tie: s lies outside [minOffset, maxOffset] and
\* s - minOffset = maxOffset - s.
AutoTie ==
  /\ AutoCall
  /\ ~( /\ MinOffsetOf(last.index, last.height) <= last.offset
        /\ last.offset <= MaxOffsetOf(last.index, last.height) )
  /\ last.offset - MinOffsetOf(last.index, last.height)
       = MaxOffsetOf(last.index, last.height) - last.offset

\* C11 (as claimed): getOffsetForAlignment(index, 'auto', s) with s outside
\* [minOffset, maxOffset] and s - minOffset = maxOffset - s returns minOffset.
C11_TieReturnsMinOffset ==
  AutoTie => last.ret = MinOffsetOf(last.index, last.height)

\* C11 (amended): getOffsetForAlignment(index, 'auto', s) with s outside
\* [minOffset, maxOffset] and s - minOffset = maxOffset - s returns maxOffset: the
\* strict < is false on a tie, which goes to the else branch.
C11_TieReturnsMaxOffset ==
  AutoTie => last.ret = MaxOffsetOf(last.index, last.height)

\* C11 witness: a tie at a scroll position that is not negative, with the item
\* taller than the viewport (maxOffset < s < minOffset); maxOffset was returned.
C11_Witness ==
  /\ AutoTie
  /\ last.offset >= 0
  /\ MaxOffsetOf(last.index, last.height) < last.offset
  /\ last.offset < MinOffsetOf(last.index, last.height)
  /\ last.ret = MaxOffsetOf(last.index, last.height)

\* A getOffsetForAlignment call with the given align.
AlignCall(align) ==
  /\ last.op = "getOffsetForAlignment"
  /\ last.align = align

\* C12 (as claimed): getOffsetForAlignment(index, 'start', s) returns
\* min(T - viewportSize, offset(index)) with T the estimatedTotalSize() of the state
\* after index was measured; the result never exceeds T - viewportSize, and for the
\* last item of a list longer than the viewport it is the exact total size minus
\* viewportSize.
C12_StartOfAnyLastItem ==
  AlignCall("start")
  => LET T == TotalOf(instanceProps, props.itemCount)
     IN /\ ~last.err
        /\ LastMeasured >= last.index
        /\ last.ret = Min(T - last.height, Map[last.index].offset)
        /\ last.ret <= T - last.height
        /\ (last.index = props.itemCount - 1 /\ ExactTotalSize > last.height)
             => last.ret = ExactTotalSize - last.height

\* C12 (amended): getOffsetForAlignment(index, 'start', s) returns
\* min(T - viewportSize, offset(index)) with T the estimatedTotalSize() of the state
\* after index was measured; the result never exceeds T - viewportSize, and for the
\* last item of a list longer than the viewport it is the exact total size minus
\* viewportSize provided the last item is not taller than the viewport (a taller
\* last item is aligned at its own offset).
C12_StartIsMaxOffset ==
  AlignCall("start")
  => LET T == TotalOf(instanceProps, props.itemCount)
         lastItem == last.index = props.itemCount - 1 /\ ExactTotalSize > last.height
     IN /\ ~last.err
        /\ LastMeasured >= last.index
        /\ last.ret = Min(T - last.height, Map[last.index].offset)
        /\ last.ret <= T - last.height
        /\ (lastItem /\ Map[last.index].size <= last.height)
             => last.ret = ExactTotalSize - last.height
        /\ (lastItem /\ Map[last.index].size > last.height)
             => last.ret = Map[last.index].offset

\* C12 witness: 'start' on the last item, measured by this very call, of a list
\* longer than the viewport; the result is total - viewportSize, above 0 and below
\* the item's offset, while the estimate from before the call was another total.
C12_Witness ==
  /\ AlignCall("start")
  /\ last.index = props.itemCount - 1
  /\ last.preLastMeasuredIndex < last.index
  /\ last.ret = ExactTotalSize - last.height
  /\ last.ret > 0
  /\ last.ret < Map[last.index].offset
  /\ (IF last.preLastMeasuredIndex = -1 THEN 0
      ELSE Map[last.preLastMeasuredIndex].offset + Map[last.preLastMeasuredIndex].size)
     + (props.itemCount - last.preLastMeasuredIndex - 1) * instanceProps.estimatedItemSize
       # ExactTotalSize

\* C13: getOffsetForAlignment(index, 'end', s) returns
\* max(0, offset(index) - viewportSize + size(index)), so it is never negative, and
\* for an item with offset + size <= viewportSize it returns exactly 0.
C13_EndIsMinOffsetNeverNegative ==
  AlignCall("end")
  => /\ ~last.err
     /\ LET bottom == Map[last.index].offset + Map[last.index].size
        IN /\ last.ret = (IF bottom - last.height > 0 THEN bottom - last.height ELSE 0)
           /\ last.ret >= 0
           /\ bottom <= last.height => last.ret = 0

\* C13 witness: 'end' on an item past the first whose bottom lies above the
\* viewport's height (offset + size - viewportSize is negative): 0 was returned.
C13_Witness ==
  /\ AlignCall("end")
  /\ last.index >= 1
  /\ Map[last.index].offset + Map[last.index].size < last.height
  /\ last.ret = 0

\* C14: getOffsetForAlignment(index, 'center', s) returns the midpoint of minOffset
\* and maxOffset rounded to the nearest integer, halves up, that is
\* floor((minOffset + maxOffset + 1) / 2), a value fixed by the store and the
\* viewport alone whatever s is; with minOffset <= maxOffset it lies in
\* [minOffset, maxOffset].
C14_CenterIsRoundedMidpoint ==
  AlignCall("center")
  => /\ ~last.err
     /\ LET minOffset == MinOffsetOf(last.index, last.height)
            maxOffset == MaxOffsetOf(last.index, last.height)
        IN /\ last.ret = (minOffset + maxOffset + 1) \div 2
           /\ 2 * last.ret - (minOffset + maxOffset) \in {0, 1}
           /\ minOffset <= maxOffset
                => (minOffset <= last.ret /\ last.ret <= maxOffset)

\* C14 witness: 'center' with minOffset < maxOffset an odd distance apart, at a
\* scroll position outside [minOffset, maxOffset]: the half was rounded up.
C14_Witness ==
  /\ AlignCall("center")
  /\ MinOffsetOf(last.index, last.height) < MaxOffsetOf(last.index, last.height)
  /\ last.offset > MaxOffsetOf(last.index, last.height)
  /\ 2 * last.ret
       = MinOffsetOf(last.index, last.height) + MaxOffsetOf(last.index, last.height) + 1

\* C15 (as claimed, for a list at least as long as the viewport): for 'center', an
\* item too close to the beginning to be centred (offset + size/2 < viewportSize/2)
\* gets 0, and the last item, too close to the end (size/2 < viewportSize/2), gets
\* the total size minus viewportSize.
C15_CenterClampsAtTheEdges ==
  ( /\ AlignCall("center")
    /\ ~last.err
    /\ TotalOf(instanceProps, props.itemCount) >= last.height )
  => /\ 2 * Map[last.index].offset + Map[last.index].size < last.height
          => last.ret = 0
     /\ (last.index = props.itemCount - 1 /\ Map[last.index].size < last.height)
          => last.ret = ExactTotalSize - last.height

\* C16: getMetadata(index) with index > L = lastMeasuredIndex invokes itemSize exactly
\* once for each of L + 1 .. index, in ascending order, and for no other index; every
\* such i gets the running cumulative offset (0 when L = -1, else
\* store[L].offset + store[L].size, then advanced by each size) and itemSize(i) as
\* its size; lastMeasuredIndex becomes index and store[index] is returned.
C16_ForwardFill ==
  [][ (last'.op = "getMetadata" /\ last'.index > LastMeasured)
      => LET L == LastMeasured
             index == last'.index
             map2 == instanceProps'.itemMetadataMap
         IN /\ ~last'.err
            /\ last'.calls = [j \in 1..(index - L) |-> L + j]
            /\ DOMAIN map2 = (DOMAIN Map) \cup ((L + 1)..index)
            /\ \A i \in (DOMAIN Map) \ ((L + 1)..index) : map2[i] = Map[i]
            /\ \A i \in (L + 1)..index :
                 /\ map2[i].size = props.itemSize[i]
                 /\ map2[i].offset =
                      IF i > L + 1 THEN map2[i - 1].offset + map2[i - 1].size
                      ELSE IF L = -1 THEN 0
                      ELSE Map[L].offset + Map[L].size
            /\ instanceProps'.lastMeasuredIndex = index
            /\ instanceProps'.estimatedItemSize = instanceProps.estimatedItemSize
            /\ last'.meta = map2[index] ]_vars

\* C16 witness: getMetadata(index) from a watermark L >= 0 measured L + 1 and L + 2
\* = index, in that order, continuing from entry L.
C16_Witness ==
  /\ last.op = "getMetadata"
  /\ last.preLastMeasuredIndex >= 0
  /\ last.index = last.preLastMeasuredIndex + 2
  /\ last.calls = <<last.preLastMeasuredIndex + 1, last.index>>
  /\ LastMeasured = last.index
  /\ last.meta = Map[last.index]
  /\ last.meta.offset = Map[last.preLastMeasuredIndex].offset
                         + Map[last.preLastMeasuredIndex].size
                         + Map[last.index - 1].size

\* C17: getMetadata(i) with i <= lastMeasuredIndex has no side effect (itemSize is not
\* invoked, the store and lastMeasuredIndex stay as they are) and returns the stored
\* {offset, size}, so repeated calls return the same; and no operation invokes
\* itemSize for an index at or below the watermark or twice for one index, and it
\* leaves every index it invoked at or below the watermark: between two
\* invalidations that cover it, an index is measured at most once.  (The render
\* invalidateAfter ends with measures from the watermark invalidateAfter has set.)
C17_MeasuredItemsAreCached ==
  [][ /\ (last'.op = "getMetadata" /\ last'.index <= LastMeasured)
        => /\ ~last'.err
           /\ last'.calls = <<>>
           /\ instanceProps' = instanceProps
           /\ last'.meta = Map[last'.index]
      /\ \A j \in 1..Len(last'.calls) :
           /\ last'.calls[j] > StepStart.lastMeasuredIndex
           /\ last'.calls[j] <= instanceProps'.lastMeasuredIndex
           /\ \A k \in 1..(j - 1) : last'.calls[k] < last'.calls[j] ]_vars

\* C17 witness: getMetadata(i) for a measured i, with measured items above it and a
\* stale entry above the watermark, invoked nothing and returned the stored entry.
C17_Witness ==
  /\ last.op = "getMetadata"
  /\ last.index < last.preLastMeasuredIndex
  /\ (LastMeasured + 1) \in DOMAIN Map
  /\ LastMeasured = last.preLastMeasuredIndex
  /\ last.calls = <<>>
  /\ last.meta = Map[last.index]

\* The message validateProps throws for a value of the given type name.
InvalidItemSizeMessage(typeName) ==
  "An invalid \"itemSize\" prop has been specified. Value should be a function. \""
    \o typeName \o "\" was specified."

\* What C18 says of a finished validation: a non-function itemSize was rejected,
\* nothing measured and the store empty, with the message naming the type (null as
\* "null", 123 as "number"); a function was not rejected.
ValidationOutcomeClaimed ==
  LET v == props.itemSizeProp
  IN /\ v.typeof # "function"
          => /\ last.err
             /\ last.message = InvalidItemSizeMessage(IF v.isNull THEN "null" ELSE v.typeof)
             /\ v.isNull
                  => last.message = "An invalid \"itemSize\" prop has been specified. Value should be a function. \"null\" was specified."
             /\ v.typeof = "number"
                  => last.message = "An invalid \"itemSize\" prop has been specified. Value should be a function. \"number\" was specified."
             /\ last.calls = <<>>
             /\ Map = EmptyMap
             /\ LastMeasured = -1
     /\ v.typeof = "function" => ~last.err

\* C18 (as claimed): a list configured with an itemSize that is not a function is
\* rejected at validation, before any measurement or store mutation, with a message
\* naming the type of the value; a function is never rejected.
C18_NonFunctionItemSizeIsRejected ==
  last.op = "validateProps" => ValidationOutcomeClaimed

\* C18 (amended): unless process.env.NODE_ENV is 'production', a list configured with
\* an itemSize that is not a function is rejected at validation, before any
\* measurement or store mutation, with a message naming the type of the value; a
\* function is never rejected; in a production build validateProps rejects nothing.
C18_RejectedUnlessProduction ==
  last.op = "validateProps"
  => /\ last.nodeEnv # "production" => ValidationOutcomeClaimed
     /\ last.nodeEnv = "production" => ~last.err

\* C18 witness: validation outside production rejected null, reporting "null".
C18_Witness ==
  /\ last.op = "validateProps"
  /\ last.nodeEnv = "test"
  /\ props.itemSizeProp.isNull
  /\ last.err
  /\ last.message = InvalidItemSizeMessage("null")

\* C19: lastMeasuredIndex starts at -1, and no operation other than invalidateAfter
\* lowers it.
C19_WatermarkOnlyFallsByInvalidation ==
  /\ LastMeasured = -1
  /\ [][ last'.op # "invalidateAfter"
          => instanceProps'.lastMeasuredIndex >= LastMeasured ]_vars

\* C19 witness: an alignment call on an item below the watermark left the watermark
\* where it was, above that item.
C19_Witness ==
  /\ last.op = "getOffsetForAlignment"
  /\ ~last.err
  /\ last.preLastMeasuredIndex >= 1
  /\ last.index < last.preLastMeasuredIndex
  /\ LastMeasured = last.preLastMeasuredIndex

\* C20 (as claimed): invalidateAfter(k) changes lastMeasuredIndex and nothing else:
\* every store entry, those above the new watermark included, is left exactly as it
\* was, and so is estimatedItemSize.
C20_InvalidateChangesOnlyTheWatermark ==
  [][ last'.op = "invalidateAfter"
      => /\ instanceProps'.itemMetadataMap = Map
         /\ instanceProps'.estimatedItemSize = instanceProps.estimatedItemSize
         /\ instanceProps'
              = [instanceProps EXCEPT
                   !.lastMeasuredIndex = instanceProps'.lastMeasuredIndex]
         /\ props' = props ]_vars

\* C20 (amended): the assignment of invalidateAfter(k) changes lastMeasuredIndex and
\* nothing else, and the call deletes no store entry and leaves estimatedItemSize
\* and the props alone.  The render the call ends with measures again the items it
\* shows that lie above the new watermark min(old, k - 1): when the call has
\* returned, every entry at or below min(old, k - 1) and every entry above the
\* watermark the call leaves is exactly as it was (stale entries up there are not
\* deleted), and an entry in between holds the current itemSize at the offset that
\* continues the entry before it.
C20_InvalidateDeletesNoEntry ==
  [][ last'.op = "invalidateAfter"
      => LET map2 == instanceProps'.itemMetadataMap
             low == Min(LastMeasured, last'.index - 1)
             high == instanceProps'.lastMeasuredIndex
         IN /\ last'.reset.itemMetadataMap = Map
            /\ last'.reset.estimatedItemSize = instanceProps.estimatedItemSize
            /\ last'.reset
                 = [instanceProps EXCEPT !.lastMeasuredIndex = low]
            /\ instanceProps'.estimatedItemSize = instanceProps.estimatedItemSize
            /\ props' = props
            /\ DOMAIN Map \subseteq DOMAIN map2
            /\ \A i \in DOMAIN Map : (i <= low \/ i > high) => map2[i] = Map[i]
            /\ \A i \in (low + 1)..high :
                 /\ \E j \in 1..Len(last'.calls) : last'.calls[j] = i
                 /\ map2[i].size = props.itemSize[i]
                 /\ map2[i].offset = IF i = 0 THEN 0
                                     ELSE map2[i - 1].offset + map2[i - 1].size
    ]_vars

\* C20 witness: invalidateAfter(k) lowered the watermark by two items or more, and
\* the entries of the items it was lowered past were still in the store, as
\* measured; the render that followed measured one of them again, with another
\* size than it had, and left the other above the watermark, as it was.
C20_Witness ==
  /\ last.op = "invalidateAfter"
  /\ last.reset.lastMeasuredIndex = last.index - 1
  /\ last.preLastMeasuredIndex >= last.reset.lastMeasuredIndex + 2
  /\ \A i \in (last.reset.lastMeasuredIndex + 1)..last.preLastMeasuredIndex :
       /\ i \in DOMAIN last.reset.itemMetadataMap
       /\ last.reset.itemMetadataMap[i].offset
            = SumStored(last.reset.itemMetadataMap, i - 1)
  /\ LastMeasured = last.index
  /\ Map[last.index].size # last.reset.itemMetadataMap[last.index].size
  /\ (LastMeasured + 1) \in DOMAIN Map
  /\ Map[LastMeasured + 1] = last.reset.itemMetadataMap[LastMeasured + 1]

\* C21 (as claimed): the store is written only by the forward fill:
\* estimatedTotalSize() changes neither the store nor lastMeasuredIndex, and no
\* operation changes an entry at or below the lastMeasuredIndex that held when the
\* operation started; the entries an operation writes lie above that watermark and
\* at or below the one it ends with.
C21_OnlyTheForwardFillWrites ==
  [][ LET map2 == instanceProps'.itemMetadataMap
          L2 == instanceProps'.lastMeasuredIndex
      IN /\ last'.op = "estimatedTotalSize" => instanceProps' = instanceProps
         /\ \A i \in 0..LastMeasured : i \in DOMAIN map2 /\ map2[i] = Map[i]
         /\ \A i \in DOMAIN map2 :
              (i <= LastMeasured \/ i > L2) => (i \in DOMAIN Map /\ map2[i] = Map[i])
         /\ DOMAIN Map \subseteq DOMAIN map2 ]_vars

\* C21 (amended): the store is written only by the forward fill:
\* estimatedTotalSize() changes neither the store nor lastMeasuredIndex; no
\* operation other than invalidateAfter changes an entry at or below the
\* lastMeasuredIndex L that held when it started; invalidateAfter(k), whose render
\* measures from the watermark it has just lowered, changes no entry at or below
\* min(L, k - 1), and may rewrite the entries from k to L.  The entries an
\* operation writes lie above that watermark and at or below the one it ends with,
\* and no operation deletes an entry.
C21_WritesLieAboveTheMeasuringWatermark ==
  [][ LET map2 == instanceProps'.itemMetadataMap
          L1 == IF last'.op = "invalidateAfter"
                THEN Min(LastMeasured, last'.index - 1)
                ELSE LastMeasured
          L2 == instanceProps'.lastMeasuredIndex
      IN /\ last'.op = "estimatedTotalSize" => instanceProps' = instanceProps
         /\ last'.op = "invalidateAfter" => StepStart.lastMeasuredIndex = L1
         /\ \A i \in 0..L1 : i \in DOMAIN map2 /\ map2[i] = Map[i]
         /\ \A i \in DOMAIN map2 :
              (i <= L1 \/ i > L2) => (i \in DOMAIN Map /\ map2[i] = Map[i])
         /\ DOMAIN Map \subseteq DOMAIN map2 ]_vars

\* C21 witness: invalidateAfter(k) on a list measured past k returned with the
\* entry of item k, which was at or below the watermark the call started with,
\* rewritten by its render, and every entry below k as it was.
C21_Witness ==
  /\ last.op = "invalidateAfter"
  /\ last.index >= 1
  /\ last.preLastMeasuredIndex >= last.index
  /\ LastMeasured >= last.index
  /\ Map[last.index] # last.reset.itemMetadataMap[last.index]
  /\ \A i \in 0..(last.index - 1) : Map[i] = last.reset.itemMetadataMap[i]

\* C22: every call of findIndexForOffset, findStopIndex, getMetadata and
\* getOffsetForAlignment terminates, from every reachable state, for every offset
\* and every index of the list: a call in progress leads to its return (or to the
\* TypeError that ends it), and what it then leaves is what the call run in one
\* piece gives.
C22_EveryCallTerminates ==
  /\ [](Done => /\ instanceProps = last.expect.ip
                 /\ last.err = last.expect.err
                 /\ last.ret = last.expect.ret)
  /\ (Running ~> Done)

\* C22 witness: a findIndexForOffset for an offset past the content has returned
\* the last item after probing from a measured item and searching the bracket.
C22_Witness ==
  /\ Done
  /\ last.op = "findIndexForOffset"
  /\ ~last.err
  /\ last.interval >= 4
  /\ last.index >= props.itemCount
  /\ last.low > last.high
  /\ last.ret = props.itemCount - 1

\* The outcome of the call `op` with the given arguments on the instanceProps ip, as
\* the actions record it.
CallOn(ip, op, index, offset, height, align) ==
  LET r == CASE op = "getMetadata" ->
                  [GetItemMetadata(PropsWith(0), index, NewRun(ip)) EXCEPT !.ret = 0]
             [] op = "estimatedTotalSize" ->
                  GetEstimatedTotalSize(PropsWith(0), NewRun(ip))
             [] op = "findIndexForOffset" ->
                  [GetStartIndexForOffset(PropsWith(0), offset, NewRun(ip))
                     EXCEPT !.meta = Undefined]
             [] op = "findStopIndex" ->
                  [GetStopIndexForStartIndex(PropsWith(height), index, offset, NewRun(ip))
                     EXCEPT !.meta = Undefined]
             [] OTHER ->
                  [GetOffsetForIndexAndAlignment(PropsWith(height), index, align, offset,
                                                 NewRun(ip))
                     EXCEPT !.meta = Undefined]
  IN [ip |-> r.ip, err |-> r.err,
      ret |-> IF r.err THEN 0 ELSE r.ret,
      meta |-> IF r.err THEN Undefined ELSE r.meta]

\* ip with every entry above its lastMeasuredIndex removed.
WithoutStaleEntries(ip) ==
  [ip EXCEPT !.itemMetadataMap =
     [j \in {k \in DOMAIN ip.itemMetadataMap : k <= ip.lastMeasuredIndex}
        |-> ip.itemMetadataMap[j]]]

\* C23: stale entries never influence a result: each of getMetadata,
\* estimatedTotalSize, findIndexForOffset, findStopIndex and getOffsetForAlignment
\* returns, from the state it is called in, what it returns from the state with the
\* same lastMeasuredIndex, the same entries at or below it and the same
\* configuration but no entry above it, and leaves the same lastMeasuredIndex and
\* the same entries at or below it.  (Two states that agree at and below the
\* watermark have the same such state, so they give the same.)
C23_StaleEntriesNeverInfluence ==
  [][ last'.op \in {"getMetadata", "estimatedTotalSize", "findIndexForOffset",
                    "findStopIndex", "getOffsetForAlignment"}
      => \A twin \in {CallOn(WithoutStaleEntries(instanceProps), last'.op, last'.index,
                             last'.offset, last'.height, last'.align)} :
           /\ twin.ret = last'.ret
           /\ twin.err = last'.err
           /\ twin.meta = last'.meta
           /\ twin.ip.lastMeasuredIndex = instanceProps'.lastMeasuredIndex
           /\ twin.ip.estimatedItemSize = instanceProps'.estimatedItemSize
           /\ \A i \in 0..instanceProps'.lastMeasuredIndex :
                /\ i \in DOMAIN twin.ip.itemMetadataMap
                /\ twin.ip.itemMetadataMap[i] = instanceProps'.itemMetadataMap[i] ]_vars

\* C23 witness: a search measured past a watermark L >= 0 over entries left stale by
\* an invalidation, and an entry still above the new watermark does not continue
\* the measured ones (its offset is not the end of the item before it).
C23_Witness ==
  /\ last.op = "findIndexForOffset"
  /\ ~last.err
  /\ last.preLastMeasuredIndex >= 0
  /\ last.calls # <<>>
  /\ (LastMeasured + 1) \in DOMAIN Map
  /\ Map[LastMeasured + 1].offset # Map[LastMeasured].offset + Map[LastMeasured].size

\* C24 (as claimed): in every reachable state -1 <= lastMeasuredIndex <= itemCount - 1,
\* so the unmeasured count itemCount - lastMeasuredIndex - 1 of estimatedTotalSize()
\* is never negative and findIndexForOffset never returns an index >= itemCount,
\* also after invalidateAfter(k) for any k in [0, itemCount) and after a re-render
\* with an itemCount below the number of items measured.
C24_WatermarkWithinTheList ==
  /\ -1 <= LastMeasured
  /\ LastMeasured <= props.itemCount - 1
  /\ props.itemCount - LastMeasured - 1 >= 0
  /\ (last.op = "findIndexForOffset" /\ ~last.err) => last.ret < props.itemCount

\* C25: findStopIndex(startIndex, scrollOffset, viewportSize) measures no item beyond
\* the index it returns: afterwards lastMeasuredIndex is the larger of its value
\* before the call and the returned index, and itemSize was invoked for the indices
\* above the old lastMeasuredIndex up to the returned index and for no other.
C25_FindStopIndexMeasuresNoFurther ==
  last.op = "findStopIndex"
  => /\ ~last.err
     /\ LastMeasured = (IF last.ret > last.preLastMeasuredIndex THEN last.ret
                        ELSE last.preLastMeasuredIndex)
     /\ \A j \in 1..Len(last.calls) :
          last.preLastMeasuredIndex < last.calls[j] /\ last.calls[j] <= last.ret
     /\ last.calls = [j \in 1..Len(last.calls) |-> last.preLastMeasuredIndex + j]
     /\ Len(last.calls) = (IF last.ret > last.preLastMeasuredIndex
                           THEN last.ret - last.preLastMeasuredIndex ELSE 0)

\* C25 witness: the walk started at a measured item, measured past the watermark and
\* stopped at an item before the last, which is the last one measured.
C25_Witness ==
  /\ last.op = "findStopIndex"
  /\ last.preLastMeasuredIndex >= 0
  /\ last.index <= last.preLastMeasuredIndex
  /\ last.calls # <<>>
  /\ last.ret < props.itemCount - 1
  /\ LastMeasured = last.ret

\* The size getMetadata(index) would return in this state.
MetadataSize(index) ==
  GetItemMetadata(PropsWith(0), index, NewRun(instanceProps)).meta.size

\* C26 (as claimed): in every reachable state and for every index in [0, itemCount),
\* getItemSize(index) returns the size getMetadata(index) would return; for an index
\* above lastMeasuredIndex it returns neither a stale size nor an undefined entry.
C26_ItemSizeIsTheMeasuredSize ==
  last.op = "getItemSize"
  => /\ ~last.err
     /\ last.ret = MetadataSize(last.index)

\* C26 (amended): for every index at or below lastMeasuredIndex getItemSize(index)
\* returns the size getMetadata(index) would return; for an index above
\* lastMeasuredIndex it measures nothing and reads the store as it is: it throws a
\* TypeError when the store has no entry there and returns the stale size when an
\* invalidation left one.  It never changes the store or lastMeasuredIndex.
C26_ItemSizeReadsTheStore ==
  last.op = "getItemSize"
  => /\ last.calls = <<>>
     /\ LastMeasured = last.preLastMeasuredIndex
     /\ last.index <= LastMeasured
          => (~last.err /\ last.ret = MetadataSize(last.index))
     /\ last.index > LastMeasured
          => /\ last.err <=> last.index \notin DOMAIN Map
             /\ ~last.err => last.ret = Map[last.index].size

\* C26 witness: getItemSize(index) of a measured item returned the size
\* getMetadata(index) returns, while an entry above the watermark is stale.
C26_Witness ==
  /\ last.op = "getItemSize"
  /\ ~last.err
  /\ last.index >= 1
  /\ last.index <= LastMeasured
  /\ last.ret = MetadataSize(last.index)
  /\ (LastMeasured + 1) \in DOMAIN Map

\* C27: no operation invokes itemSize with an index outside [0, itemCount), whatever
\* offset findIndexForOffset is given (past the content too, where the probe
\* overshoots) and whatever index of the list the other operations are given.
C27_ItemSizeCalledInRangeOnly ==
  \A j \in 1..Len(last.calls) :
    0 <= last.calls[j] /\ last.calls[j] < props.itemCount

\* C27 witness: findIndexForOffset for an offset past the content probed from a
\* measured item, measured up to the last item and returned it.
C27_Witness ==
  /\ last.op = "findIndexForOffset"
  /\ ~last.err
  /\ last.offset > ExactTotalSize
  /\ last.preLastMeasuredIndex >= 0
  /\ Len(last.calls) >= 2
  /\ last.calls[Len(last.calls)] = props.itemCount - 1
  /\ last.ret = props.itemCount - 1

====
